---- MODULE Spec2Model ----
(***************************************************************************)
(* Model of the semantic similarity engine of the question-refinement      *)
(* chatbot: backend/services/similarity_service.py (SimilarityService) and *)
(* its lazy construction in backend/main.py.                               *)
(*                                                                         *)
(* Texts are sequences of one-character strings.  An embedding is a small  *)
(* integer vector; a cosine similarity is kept exactly, as the pair        *)
(* [num, den2] that stands for num / sqrt(den2).  Thresholds are given in  *)
(* hundredths (80 stands for 0.8).  Sequence positions are 1-based, so the *)
(* position p of the model is the idx p-1 of the code.                     *)
(***************************************************************************)
EXTENDS Integers, Sequences, FiniteSets, TLC

VARIABLES files, embed, failing, similarity_service, questions, index,
          call, outcome, ret, encode_calls, search_calls, classified, det,
          requested_k, constructions, used, previous

vars == <<files, embed, failing, similarity_service, questions, index,
          call, outcome, ret, encode_calls, search_calls, classified, det,
          requested_k, constructions, used, previous>>

-----------------------------------------------------------------------------
(* Bounds of the model *)

MaxCorpus == 3

MaxTopK == 2

(* longest corpus source with defective records *)
MaxRawCorpus == 2

(* longest text given to the exact-match detector alone *)
MaxTextLen == 2

(* longest corpus of the engine whose calls an observer compares *)
MaxHistoryCorpus == 2

(* the calls counted after the one the observer kept *)
MaxLater == 2

(* Python's None, for exact_match_id (record ids are positive) *)
None == 0

(* threshold=0.99 of _are_texts_similar, in hundredths *)
ExactThreshold == 99

-----------------------------------------------------------------------------
(* Texts, the embedding provider's vectors and the call's inputs *)

T_ab == <<"a", " ", "b">>

T_AB == <<" ", "A", "\t", " ", "b">>

T_b == <<"b">>

T_Ab == <<"A", " ", "b">>

Texts == {T_ab, T_AB, T_b}

Vectors == {<<2, 0>>, <<8, 1>>, <<4, 3>>}

Thresholds == {80, 90, 100}

TopKs == 1..MaxTopK

(* the sets of texts on which the provider's encode raises *)
FailSets == {{}, {T_ab}}

(* the id the source data gives the record at position p *)
IdAt(p) == 100 + p

-----------------------------------------------------------------------------
(* _normalize_text: re.sub(r'\s+', ' ', text.strip()).lower() *)

IsSpace(c) == c \in {" ", "\t", "\n"}

LowerChar(c) ==
    CASE c = "A" -> "a"
      [] c = "B" -> "b"
      [] OTHER -> c

RECURSIVE LStrip(_)
LStrip(s) ==
    IF s = <<>> THEN <<>>
    ELSE IF IsSpace(Head(s)) THEN LStrip(Tail(s)) ELSE s

RECURSIVE RStrip(_)
RStrip(s) ==
    IF s = <<>> THEN <<>>
    ELSE IF IsSpace(s[Len(s)]) THEN RStrip(SubSeq(s, 1, Len(s) - 1)) ELSE s

Strip(s) == RStrip(LStrip(s))

(* every maximal run of whitespace becomes one " " *)
RECURSIVE CollapseSpaces(_)
CollapseSpaces(s) ==
    IF s = <<>> THEN <<>>
    ELSE IF IsSpace(Head(s))
         THEN <<" ">> \o CollapseSpaces(LStrip(Tail(s)))
         ELSE <<Head(s)>> \o CollapseSpaces(Tail(s))

Lower(s) == [i \in 1..Len(s) |-> LowerChar(s[i])]

(* the normalization without .lower() *)
_normalize_text_NoLower(text) == CollapseSpaces(Strip(text))

_normalize_text(text) == Lower(CollapseSpaces(Strip(text)))

-----------------------------------------------------------------------------
(* Vectors and exact cosine arithmetic *)

Dot(u, v) == u[1] * v[1] + u[2] * v[2]

Norm2(v) == Dot(v, v)

(* a * sqrt(x) >= b * sqrt(y), for x, y > 0 *)
SqrtGE(a, x, b, y) ==
    IF a >= 0
    THEN IF b < 0 THEN TRUE ELSE a * a * x >= b * b * y
    ELSE IF b >= 0 THEN FALSE ELSE a * a * x <= b * b * y

(* faiss.normalize_L2: the vector v / |v|, kept as v with its squared norm *)
normalize_L2(v) == [v |-> v, n2 |-> Norm2(v)]

(* inner product of two normalized vectors: a cosine, num / sqrt(den2) *)
InnerProduct(a, b) == [num |-> Dot(a.v, b.v), den2 |-> a.n2 * b.n2]

(* the dot product taken for the cosine, the norms forgotten *)
CosineSimilarity_NoNorms(u, v) == [num |-> Dot(u, v), den2 |-> 1]

(* np.dot(e1, e2) / (np.linalg.norm(e1) * np.linalg.norm(e2)) *)
CosineSimilarity(u, v) == [num |-> Dot(u, v), den2 |-> Norm2(u) * Norm2(v)]

(* s1 >= s2 for two cosines *)
ScoreGE(s1, s2) == SqrtGE(s1.num, s2.den2, s2.num, s1.den2)

(* similarity >= threshold, the threshold in hundredths *)
AtLeast(s, threshold) == SqrtGE(100 * s.num, 1, threshold, s.den2)

-----------------------------------------------------------------------------
(* The embedding provider: SentenceTransformer.encode.  It is deterministic: *)
(* embed gives the vector of each text, failing the texts on which it raises *)

EncodeFails(text) == text \in failing

Encode(text) == embed[text]

-----------------------------------------------------------------------------
(* SimilarityService._load_questions *)

NoFile == [exists |-> FALSE, valid |-> FALSE, data |-> <<>>]

JsonFile(data) == [exists |-> TRUE, valid |-> TRUE, data |-> data]

MalformedFile == [exists |-> TRUE, valid |-> FALSE, data |-> <<>>]

(* possible_paths for questions_file = "question.json", in the order tried *)
possible_paths ==
    <<"root/question.json", "root/question.json", "root/questions.json",
      "cwd/question.json", "cwd/question.json", "cwd/questions.json">>

PathNames == {possible_paths[i] : i \in 1..Len(possible_paths)}

(* a file that cannot be parsed is passed over for the next path *)
RECURSIVE LoadFrom_SkipMalformed(_, _)
LoadFrom_SkipMalformed(fs, i) ==
    IF i > Len(possible_paths) THEN <<>>
    ELSE IF fs[possible_paths[i]].exists /\ fs[possible_paths[i]].valid
         THEN fs[possible_paths[i]].data
         ELSE LoadFrom_SkipMalformed(fs, i + 1)

(* the loop over possible_paths from the i-th path on, inside the try *)
RECURSIVE LoadFrom(_, _)
LoadFrom(fs, i) ==
    IF i > Len(possible_paths) THEN <<>>
    ELSE IF fs[possible_paths[i]].exists
         THEN IF fs[possible_paths[i]].valid
              THEN fs[possible_paths[i]].data
              ELSE <<>>
         ELSE LoadFrom(fs, i + 1)

_load_questions(fs) == LoadFrom(fs, 1)

-----------------------------------------------------------------------------
(* SimilarityService._build_index *)

IndexNone == [built |-> FALSE, vectors |-> <<>>]

HasField(q, f) == f \in DOMAIN q

(* the try block fails on a record without "question" or on a provider error *)
BuildFails(qs) ==
    \/ \E i \in 1..Len(qs) : ~HasField(qs[i], "question")
    \/ \E i \in 1..Len(qs) : HasField(qs[i], "question") /\ EncodeFails(qs[i].question)

(* the index built over the records that have a text only, the records *)
(* without one left in the corpus                                       *)
_build_index_SkipDefective(qs) ==
    IF qs = <<>> \/ \E i \in 1..Len(qs) : HasField(qs[i], "question")
                                          /\ EncodeFails(qs[i].question)
    THEN IndexNone
    ELSE [built |-> TRUE,
          vectors |-> [i \in 1..Len(SelectSeq(qs, LAMBDA q : HasField(q, "question")))
                         |-> normalize_L2(Encode(
                                 SelectSeq(qs, LAMBDA q : HasField(q, "question"))[i]
                                     .question))]]

_build_index(qs) ==
    IF qs = <<>> THEN IndexNone
    ELSE IF BuildFails(qs) THEN IndexNone
    ELSE [built |-> TRUE,
          vectors |-> [i \in 1..Len(qs) |-> normalize_L2(Encode(qs[i].question))]]

-----------------------------------------------------------------------------
(* SimilarityService._are_texts_similar: the value returned and the number *)
(* of provider calls made                                                  *)

(* the semantic tier without its try/except: a provider error leaves the *)
(* detector                                                               *)
CompareNormalized_NoExcept(normalized1, normalized2) ==
    IF normalized1 = normalized2
    THEN [value |-> TRUE, encodes |-> 0, raised |-> FALSE]
    ELSE IF EncodeFails(normalized1)
    THEN [value |-> FALSE, encodes |-> 1, raised |-> TRUE]
    ELSE IF EncodeFails(normalized2)
    THEN [value |-> FALSE, encodes |-> 2, raised |-> TRUE]
    ELSE [value |-> AtLeast([num |-> Dot(Encode(normalized1), Encode(normalized2)),
                             den2 |-> Norm2(Encode(normalized1))
                                      * Norm2(Encode(normalized2))],
                            ExactThreshold),
          encodes |-> 2, raised |-> FALSE]

CompareNormalized(normalized1, normalized2) ==
    IF normalized1 = normalized2
    THEN [value |-> TRUE, encodes |-> 0, raised |-> FALSE]
    ELSE IF EncodeFails(normalized1)
    THEN [value |-> normalized1 = normalized2, encodes |-> 1, raised |-> FALSE]
    ELSE IF EncodeFails(normalized2)
    THEN [value |-> normalized1 = normalized2, encodes |-> 2, raised |-> FALSE]
    ELSE [value |-> AtLeast(CosineSimilarity(Encode(normalized1), Encode(normalized2)),
                            ExactThreshold),
          encodes |-> 2, raised |-> FALSE]

_are_texts_similar(text1, text2) ==
    CompareNormalized(_normalize_text(text1), _normalize_text(text2))

-----------------------------------------------------------------------------
(* faiss IndexFlatIP.search: the k best positions by inner product, in      *)
(* descending order of score, equal scores by ascending position            *)

(* the search in ascending order of score *)
Better_Ascending(vectors, q, p, r) ==
    /\ ScoreGE(InnerProduct(q, vectors[r]), InnerProduct(q, vectors[p]))
    /\ ScoreGE(InnerProduct(q, vectors[p]), InnerProduct(q, vectors[r])) => p <= r

Better(vectors, q, p, r) ==
    /\ ScoreGE(InnerProduct(q, vectors[p]), InnerProduct(q, vectors[r]))
    /\ ScoreGE(InnerProduct(q, vectors[r]), InnerProduct(q, vectors[p])) => p <= r

Best(vectors, q, left) == CHOOSE p \in left : \A r \in left : Better(vectors, q, p, r)

RECURSIVE SearchFrom(_, _, _, _)
TakeBest(vectors, q, k, left, best) ==
    <<[similarity |-> InnerProduct(q, vectors[best]), pos |-> best]>>
    \o SearchFrom(vectors, q, k - 1, left \ {best})

SearchFrom(vectors, q, k, left) ==
    IF k = 0 \/ left = {} THEN <<>>
    ELSE TakeBest(vectors, q, k, left, Best(vectors, q, left))

Search(idx, q, k) == SearchFrom(idx.vectors, q, k, DOMAIN idx.vectors)

-----------------------------------------------------------------------------
(* results.sort(key=similarity, reverse=True): a stable descending sort *)

RECURSIVE InsertDesc(_, _)
InsertDesc(sorted, e) ==
    IF sorted = <<>> THEN <<e>>
    ELSE IF ScoreGE(Head(sorted).similarity, e.similarity)
         THEN <<Head(sorted)>> \o InsertDesc(Tail(sorted), e)
         ELSE <<e>> \o sorted

(* the sort without reverse=True *)
RECURSIVE InsertAsc(_, _)
InsertAsc(sorted, e) ==
    IF sorted = <<>> THEN <<e>>
    ELSE IF ScoreGE(e.similarity, Head(sorted).similarity)
         THEN <<Head(sorted)>> \o InsertAsc(Tail(sorted), e)
         ELSE <<e>> \o sorted

RECURSIVE SortAsc(_)
SortAsc(rs) ==
    IF rs = <<>> THEN <<>>
    ELSE InsertAsc(SortAsc(SubSeq(rs, 1, Len(rs) - 1)), rs[Len(rs)])

RECURSIVE SortDesc(_)
SortDesc(rs) ==
    IF rs = <<>> THEN <<>>
    ELSE InsertDesc(SortDesc(SubSeq(rs, 1, Len(rs) - 1)), rs[Len(rs)])

-----------------------------------------------------------------------------
(* SimilarityService.find_similar.  index.search is taken to fail for k < 1, *)
(* which no positive top_k on a non-empty corpus gives.                      *)

DegradedResult == [results |-> <<>>, exact_match_found |-> FALSE, exact_match_id |-> None]

(* k without the cap by the size of the corpus *)
Min_First(a, b) == a

Min(a, b) == IF a <= b THEN a ELSE b

(* the locals of the candidate loop before its first iteration *)
LoopStart ==
    [results |-> <<>>, exact_match_found |-> FALSE, exact_match_id |-> None,
     exc |-> FALSE, stop |-> FALSE, encodes |-> 0, classified |-> <<>>]

(* the test without the comparison with the threshold *)
PassesThreshold_NoThreshold(c, qs, threshold) == c.pos <= Len(qs)

(* the comparison with the threshold inverted *)
PassesThreshold_Inverted(c, qs, threshold) ==
    ~AtLeast(c.similarity, threshold) /\ c.pos <= Len(qs)

(* line 176: the candidate passes the threshold and denotes a record *)
PassesThreshold(c, qs, threshold) == AtLeast(c.similarity, threshold) /\ c.pos <= Len(qs)

(* the exclusion flag read the wrong way round *)
SkipExact_Inverted(is_exact_match, exclude_exact) == is_exact_match /\ ~exclude_exact

(* line 188: an exact match is left out of the results *)
SkipExact(is_exact_match, exclude_exact) == is_exact_match /\ exclude_exact

(* the stop one result too late *)
EnoughResults_OffByOne(results, top_k) == Len(results) > top_k

(* line 197: the loop stops *)
EnoughResults(results, top_k) == Len(results) >= top_k

(* the annotations written into the stored record itself *)
StoredAfterAnnotation_NoCopy(qs, pos, question_data) == [qs EXCEPT ![pos] = question_data]

(* the record moved out of the store into the results *)
StoredAfterAnnotation_Popped(qs, pos, question_data) ==
    [i \in 1..(Len(qs) - 1) |-> IF i < pos THEN qs[i] ELSE qs[i + 1]]

(* line 191: the annotations go to a copy of the record, so the stored *)
(* records are after the iteration what they were before it            *)
StoredAfterAnnotation(qs, pos, question_data) == qs

(* the loop without its break: once top_k results are held, the later   *)
(* candidates are still classified and reported, only no longer appended *)
LoopBody_KeepScanning(acc, c, qs, query_question, threshold, top_k, exclude_exact) ==
    IF ~PassesThreshold(c, acc.questions, threshold) THEN acc
    ELSE LET rec == acc.questions[c.pos]
             d == _are_texts_similar(query_question, rec.question)
             seen == [acc EXCEPT !.encodes = @ + d.encodes,
                                 !.classified = Append(@, c.pos)]
         IN  IF d.raised \/ (d.value /\ ~HasField(rec, "id"))
             THEN [seen EXCEPT !.exc = TRUE]
             ELSE LET marked == IF d.value
                                THEN [seen EXCEPT !.exact_match_found = TRUE,
                                                  !.exact_match_id = rec.id]
                                ELSE seen
                  IN  IF SkipExact(d.value, exclude_exact)
                         \/ EnoughResults(marked.results, top_k)
                      THEN marked
                      ELSE [marked EXCEPT !.results =
                               Append(@, [similarity |-> c.similarity,
                                          is_exact_match |-> d.value] @@ rec)]

(* one iteration of the candidate loop, for the candidate c; acc.questions *)
(* is self.questions as the iterations so far have left it                 *)
LoopBody(acc, c, qs, query_question, threshold, top_k, exclude_exact) ==
    IF ~PassesThreshold(c, acc.questions, threshold) THEN acc
    ELSE LET rec == acc.questions[c.pos]
             d == _are_texts_similar(query_question, rec.question)
             seen == [acc EXCEPT !.encodes = @ + d.encodes,
                                 !.classified = Append(@, c.pos)]
         IN  IF d.raised \/ (d.value /\ ~HasField(rec, "id"))
             THEN [seen EXCEPT !.exc = TRUE]
             ELSE LET marked == IF d.value
                                THEN [seen EXCEPT !.exact_match_found = TRUE,
                                                  !.exact_match_id = rec.id]
                                ELSE seen
                  IN  IF SkipExact(d.value, exclude_exact) THEN marked
                      ELSE LET question_data ==
                                   [similarity |-> c.similarity,
                                    is_exact_match |-> d.value] @@ rec
                               results == Append(marked.results, question_data)
                           IN  [marked EXCEPT !.results = results,
                                              !.stop = EnoughResults(results, top_k),
                                              !.questions = StoredAfterAnnotation(
                                                                @, c.pos, question_data)]

RECURSIVE CandidateLoop(_, _, _, _, _, _, _, _)
CandidateLoop(acc, cands, i, qs, query_question, threshold, top_k, exclude_exact) ==
    IF i > Len(cands) \/ acc.stop \/ acc.exc THEN acc
    ELSE CandidateLoop(
             LoopBody(acc, cands[i], qs, query_question, threshold, top_k, exclude_exact),
             cands, i + 1, qs, query_question, threshold, top_k, exclude_exact)

(* the try block: what it returns, or that it raised *)
TryBlock(qs, idx, query_question, threshold, top_k, exclude_exact) ==
    IF EncodeFails(query_question)
    THEN [exc |-> TRUE, value |-> DegradedResult, encodes |-> 1, searches |-> 0,
          classified |-> <<>>, questions |-> qs, k |-> 0]
    ELSE LET query_embedding == normalize_L2(Encode(query_question))
             k == Min(top_k * 2, Len(qs))
         IN  IF k < 1
             THEN [exc |-> TRUE, value |-> DegradedResult, encodes |-> 1, searches |-> 1,
                   classified |-> <<>>, questions |-> qs, k |-> k]
             ELSE LET cands == Search(idx, query_embedding, k)
                      acc == CandidateLoop(LoopStart @@ [questions |-> qs], cands, 1, qs,
                                           query_question, threshold, top_k,
                                           exclude_exact)
                  IN  [exc |-> acc.exc,
                       value |-> [results |-> SortDesc(acc.results),
                                  exact_match_found |-> acc.exact_match_found,
                                  exact_match_id |-> acc.exact_match_id],
                       encodes |-> 1 + acc.encodes, searches |-> 1,
                       classified |-> acc.classified, questions |-> acc.questions,
                       k |-> k]

(* no handler: the exception leaves find_similar *)
ExceptHandler_Reraise(body) ==
    [raised |-> body.exc, value |-> body.value, encodes |-> body.encodes,
     searches |-> body.searches, classified |-> body.classified,
     questions |-> body.questions, k |-> body.k]

(* except Exception: log and return the degraded result *)
ExceptHandler(body) ==
    IF body.exc
    THEN [raised |-> FALSE, value |-> DegradedResult, encodes |-> body.encodes,
          searches |-> body.searches, classified |-> body.classified,
          questions |-> body.questions, k |-> body.k]
    ELSE [raised |-> FALSE, value |-> body.value, encodes |-> body.encodes,
          searches |-> body.searches, classified |-> body.classified,
          questions |-> body.questions, k |-> body.k]

(* the early return without the test of the index *)
IndexUnavailable_NoIndexTest(qs, idx) == qs = <<>>

(* the early return of the degraded result *)
IndexUnavailable(qs, idx) == ~idx.built \/ qs = <<>>

find_similar(qs, idx, query_question, threshold, top_k, exclude_exact) ==
    IF IndexUnavailable(qs, idx)
    THEN [raised |-> FALSE, value |-> DegradedResult, encodes |-> 0, searches |-> 0,
          classified |-> <<>>, questions |-> qs, k |-> 0]
    ELSE ExceptHandler(TryBlock(qs, idx, query_question, threshold, top_k, exclude_exact))

-----------------------------------------------------------------------------
(* The state machine.                                                      *)
(*   files               the corpus files on disk (never written)          *)
(*   embed, failing      the embedding provider                            *)
(*   similarity_service  the global of main.py: "None" or the instance     *)
(*   questions, index    the instance's fields                             *)
(*   call, outcome, ret  the last find_similar call, how it ended and what *)
(*                       it returned                                       *)
(*   encode_calls, search_calls, classified                                *)
(*                       what the last call did: provider calls, index     *)
(*                       searches, positions given to the detector         *)
(*   det                 a direct call of _are_texts_similar: its texts,   *)
(*                       whether it has run, its value, its provider calls *)
(*                       and whether it raised                             *)
(*   requested_k         the k the last call gave index.search (0: none)   *)
(*   constructions       how many SimilarityService objects were built     *)
(*   used                the instances requests have called find_similar   *)
(*                       on, each named by its rank of construction        *)
(*   previous            an earlier call and what it returned, kept by an  *)
(*                       observer (history variable)                       *)

WellFormedCorpus(ts) == [p \in 1..Len(ts) |-> [id |-> IdAt(p), question |-> ts[p]]]

TextSeqs == UNION {[1..n -> Texts] : n \in 0..MaxCorpus}

Corpora == {WellFormedCorpus(ts) : ts \in TextSeqs}

OnlyConfigured(data) ==
    [f \in PathNames |-> IF f = possible_paths[1] THEN JsonFile(data) ELSE NoFile]

NoCall == [query_question |-> <<>>, threshold |-> 0, top_k |-> 0, exclude_exact |-> TRUE]

NoPrevious == [kept |-> FALSE, call |-> NoCall, ret |-> DegradedResult, later |-> 0]

InitEngine ==
    /\ similarity_service = "None"
    /\ questions = <<>>
    /\ index = IndexNone
    /\ call = NoCall
    /\ outcome = "none"
    /\ ret = DegradedResult
    /\ encode_calls = 0
    /\ search_calls = 0
    /\ classified = <<>>
    /\ requested_k = 0
    /\ constructions = 0
    /\ used = {}
    /\ previous = NoPrevious

NoDet ==
    [text1 |-> <<>>, text2 |-> <<>>, done |-> FALSE, value |-> FALSE, encodes |-> 0,
     raised |-> FALSE]

Init ==
    /\ files \in {OnlyConfigured(c) : c \in Corpora}
    /\ embed \in [Texts -> Vectors]
    /\ failing \in FailSets
    /\ InitEngine
    /\ det = NoDet

(* get_similarity_service without the test of the global: an instance is *)
(* constructed on every use                                               *)
GetSimilarityService_Unguarded ==
    /\ similarity_service' = "SimilarityService"
    /\ questions' = _load_questions(files)
    /\ index' = _build_index(_load_questions(files))
    /\ constructions' = constructions + 1
    /\ UNCHANGED <<files, embed, failing, call, outcome, ret, encode_calls,
                   search_calls, classified, det, requested_k, used, previous>>

(* get_similarity_service, with SimilarityService.__init__, on the first use *)
GetSimilarityService ==
    /\ similarity_service = "None"
    /\ similarity_service' = "SimilarityService"
    /\ questions' = _load_questions(files)
    /\ index' = _build_index(_load_questions(files))
    /\ constructions' = constructions + 1
    /\ UNCHANGED <<files, embed, failing, call, outcome, ret, encode_calls,
                   search_calls, classified, det, requested_k, used, previous>>

(* a call of find_similar on the constructed instance, from the call to the *)
(* return (the coroutine has no await inside, so it runs in one step)       *)
FindSimilar(query_question, threshold, top_k, exclude_exact) ==
    /\ similarity_service = "SimilarityService"
    /\ outcome = "none"
    /\ \E r \in {find_similar(questions, index, query_question, threshold, top_k,
                             exclude_exact)} :
           /\ call' = [query_question |-> query_question, threshold |-> threshold,
                       top_k |-> top_k, exclude_exact |-> exclude_exact]
           /\ outcome' = IF r.raised THEN "raised" ELSE "returned"
           /\ ret' = r.value
           /\ encode_calls' = r.encodes
           /\ search_calls' = r.searches
           /\ classified' = r.classified
           /\ questions' = r.questions
           /\ requested_k' = r.k
    /\ used' = used \cup {constructions}
    /\ previous' = IF previous.kept /\ previous.later < MaxLater
                   THEN [previous EXCEPT !.later = @ + 1]
                   ELSE previous
    /\ UNCHANGED <<files, embed, failing, similarity_service, index, det, constructions>>

(* the caller of find_similar is done with the QueryResult, which is a *)
(* per-call transient, and returns                                     *)
CallerReturns ==
    /\ outcome # "none"
    /\ call' = NoCall
    /\ outcome' = "none"
    /\ ret' = DegradedResult
    /\ encode_calls' = 0
    /\ search_calls' = 0
    /\ classified' = <<>>
    /\ requested_k' = 0
    /\ UNCHANGED <<files, embed, failing, similarity_service, questions, index, det,
                   constructions, used, previous>>

Next ==
    \/ GetSimilarityService
    \/ CallerReturns
    \/ \E q \in Texts, t \in Thresholds, k \in TopKs, e \in BOOLEAN :
           FindSimilar(q, t, k, e)

Spec == Init /\ [][Next]_vars

-----------------------------------------------------------------------------
(* The engine over a corpus source whose records may lack "id" or          *)
(* "question": the same operations, from a wider set of initial states     *)

RawVectors == {<<2, 0>>, <<8, 1>>}

RawRecords(p) ==
    {[id |-> IdAt(p), question |-> t] : t \in Texts}
    \cup {[question |-> t] : t \in Texts}
    \cup {[id |-> IdAt(p)]}

RawCorpora ==
    UNION {{c \in [1..n -> UNION {RawRecords(p) : p \in 1..n}] :
               \A p \in 1..n : c[p] \in RawRecords(p)} : n \in 0..MaxRawCorpus}

InitRaw ==
    /\ files \in {OnlyConfigured(c) : c \in RawCorpora}
    /\ embed \in [Texts -> RawVectors]
    /\ failing \in FailSets
    /\ InitEngine
    /\ det = NoDet

SpecRaw == InitRaw /\ [][Next]_vars

-----------------------------------------------------------------------------
(* The engine with an observer that keeps a call and its return, to compare *)
(* a later call with it                                                     *)

FixedEmbed ==
    [t \in Texts |-> IF t = T_ab THEN <<2, 0>> ELSE IF t = T_AB THEN <<8, 1>> ELSE <<4, 3>>]

HistoryCorpora ==
    {WellFormedCorpus(ts) : ts \in UNION {[1..n -> Texts] : n \in 0..MaxHistoryCorpus}}

InitHistory ==
    /\ files \in {OnlyConfigured(c) : c \in HistoryCorpora}
    /\ embed = FixedEmbed
    /\ failing \in FailSets
    /\ InitEngine
    /\ det = NoDet

(* the observer keeps the call that has just returned *)
Remember ==
    /\ outcome = "returned"
    /\ previous' = [kept |-> TRUE, call |-> call, ret |-> ret, later |-> 0]
    /\ UNCHANGED <<files, embed, failing, similarity_service, questions, index,
                   call, outcome, ret, encode_calls, search_calls, classified, det,
                   requested_k, constructions, used>>

NextHistory == Next \/ Remember

SpecHistory == InitHistory /\ [][NextHistory]_vars

-----------------------------------------------------------------------------
(* The engine over every arrangement of the candidate corpus files: each   *)
(* path is absent, unparseable, or holds a corpus of its own               *)

SourceCorpus(f) ==
    LET i == CHOOSE j \in 1..Len(possible_paths) : possible_paths[j] = f
    IN  <<[id |-> IdAt(i), question |-> T_b], [id |-> IdAt(i) + 1, question |-> T_ab]>>

FileSystems ==
    {fs \in [PathNames -> {NoFile, MalformedFile} \cup {JsonFile(SourceCorpus(f)) : f \in PathNames}] :
        \A f \in PathNames : fs[f].data \in {<<>>, SourceCorpus(f)}}

InitLoad ==
    /\ files \in FileSystems
    /\ embed = FixedEmbed
    /\ failing \in FailSets
    /\ InitEngine
    /\ det = NoDet

SpecLoad == InitLoad /\ [][Next]_vars

-----------------------------------------------------------------------------
(* The exact-match detector alone: _are_texts_similar applied to a pair of *)
(* texts drawn from DetTexts                                               *)

DetAlphabet == {"a", "A", "b", " ", "\t"}

DetTexts == Texts \cup {T_Ab} \cup UNION {[1..n -> DetAlphabet] : n \in 0..MaxTextLen}

CountB(t) == Cardinality({i \in 1..Len(t) : t[i] = "b"})

(* a provider that embeds a text by the number of b's in it *)
EmbedByB(t) ==
    CASE CountB(t) = 0 -> <<2, 0>>
      [] CountB(t) = 1 -> <<8, 1>>
      [] OTHER -> <<4, 3>>

DetFailSets == {{}, {<<"a">>}, {<<"b">>}}

InitDet ==
    /\ files = OnlyConfigured(<<>>)
    /\ embed = [t \in DetTexts |-> EmbedByB(t)]
    /\ failing \in DetFailSets
    /\ InitEngine
    /\ det \in {[NoDet EXCEPT !.text1 = t1, !.text2 = t2] : t1 \in DetTexts, t2 \in DetTexts}

AreTextsSimilar ==
    /\ ~det.done
    /\ \E r \in {_are_texts_similar(det.text1, det.text2)} :
           det' = [det EXCEPT !.done = TRUE, !.value = r.value, !.encodes = r.encodes,
                              !.raised = r.raised]
    /\ UNCHANGED <<files, embed, failing, similarity_service, questions, index,
                   call, outcome, ret, encode_calls, search_calls, classified,
                   requested_k, constructions, used, previous>>

NextDet == AreTextsSimilar

SpecDet == InitDet /\ [][NextDet]_vars

-----------------------------------------------------------------------------
(* Helpers of the properties *)

Returned == outcome = "returned"

Called == outcome # "none"

Available == index.built /\ questions # <<>>

(* the last call got its candidates from the index *)
Searched == Returned /\ Available /\ ~EncodeFails(call.query_question)

(* the candidates the index gives the last call, in its order *)
Candidates ==
    Search(index, normalize_L2(Encode(call.query_question)),
           Min(call.top_k * 2, Len(questions)))

(* the candidate c is classified as an exact match of the last call's query *)
IsExact(c) == _are_texts_similar(call.query_question, questions[c.pos].question).value

Range(seq) == {seq[i] : i \in 1..Len(seq)}

ResultIds(rs) == {rs[i].id : i \in 1..Len(rs)}

(* find_similar on the engine's state with the last call's inputs, but for *)
(* the threshold and the exclusion flag given                              *)
Again(threshold, exclude_exact) ==
    find_similar(questions, index, call.query_question, threshold, call.top_k,
                 exclude_exact).value

-----------------------------------------------------------------------------
(* C1: when the index is unbuilt or the corpus is empty, every find_similar *)
(* call returns exactly the degraded result, and calls neither the          *)
(* embedding provider nor the index.                                        *)
C1_DegradedWhenUnavailable ==
    (Called /\ ~Available) =>
        /\ outcome = "returned"
        /\ ret = DegradedResult
        /\ encode_calls = 0
        /\ search_calls = 0

(* a call has returned on an engine that holds records but no index *)
C1_Witness == Returned /\ questions # <<>> /\ ~index.built

-----------------------------------------------------------------------------
(* a step of the candidate loop failed in the last call: a record the   *)
(* detector classified as an exact match has no "id"                     *)
LoopFailed ==
    \E i \in 1..Len(classified) :
        /\ ~HasField(questions[classified[i]], "id")
        /\ _are_texts_similar(call.query_question,
                              questions[classified[i]].question).value

(* C2: find_similar never raises; when the provider fails on the query or *)
(* a step of the candidate loop fails it returns the degraded result; the *)
(* value returned always has the keys results, exact_match_found and      *)
(* exact_match_id.                                                        *)
C2_NeverRaises ==
    Called =>
        /\ outcome = "returned"
        /\ DOMAIN ret = {"results", "exact_match_found", "exact_match_id"}
        /\ (Available /\ (EncodeFails(call.query_question) \/ LoopFailed))
               => ret = DegradedResult

(* the loop failed on a record without id after an earlier candidate had *)
(* been classified                                                       *)
C2_Witness == Returned /\ Available /\ LoopFailed /\ Len(classified) > 1

-----------------------------------------------------------------------------
(* the places, in the index's order, of the candidates above the threshold *)
(* that are exact matches of the query                                      *)
ExactPlaces ==
    {i \in 1..Len(Candidates) :
        AtLeast(Candidates[i].similarity, call.threshold) /\ IsExact(Candidates[i])}

FirstExactPlace == CHOOSE i \in ExactPlaces : \A j \in ExactPlaces : i <= j

(* C3: when find_similar returns exact_match_found = true, exact_match_id  *)
(* is the id of the first candidate, in the index's order, that is above   *)
(* the threshold and an exact match.                                       *)
C3_FirstExactReported ==
    (Searched /\ ret.exact_match_found) =>
        ret.exact_match_id = questions[Candidates[FirstExactPlace].pos].id

-----------------------------------------------------------------------------
(* C4: the results of find_similar have at most top_k entries. *)
C4_TopKCap == Returned => Len(ret.results) <= call.top_k

(* the results are full and a candidate above the threshold was not reached *)
C4_Witness ==
    /\ Searched
    /\ Len(ret.results) = call.top_k
    /\ \E i \in 1..Len(Candidates) :
           /\ AtLeast(Candidates[i].similarity, call.threshold)
           /\ Candidates[i].pos \notin Range(classified)

-----------------------------------------------------------------------------
(* C5: with exclude_exact, no entry of the results is flagged as, or is,  *)
(* an exact match of the query; without it, every candidate the loop      *)
(* classified as an exact match is in the results, flagged.               *)
C5_ExclusionOfExact ==
    Returned =>
        /\ call.exclude_exact =>
               \A i \in 1..Len(ret.results) :
                   /\ ~ret.results[i].is_exact_match
                   /\ ~_are_texts_similar(call.query_question,
                                          ret.results[i].question).value
        /\ ~call.exclude_exact =>
               \A j \in 1..Len(classified) :
                   _are_texts_similar(call.query_question,
                                      questions[classified[j]].question).value
                   => \E i \in 1..Len(ret.results) :
                          /\ ret.results[i].id = questions[classified[j]].id
                          /\ ret.results[i].question = questions[classified[j]].question
                          /\ ret.results[i].is_exact_match

(* an exact match was found and left out, another record was returned *)
C5_Witness ==
    Returned /\ call.exclude_exact /\ ret.exact_match_found /\ Len(ret.results) > 0

-----------------------------------------------------------------------------
(* C6: when the first candidate of the index is a record whose text is the *)
(* query, with a score at least the threshold, find_similar with           *)
(* exclude_exact reports exact_match_found with that record's id and       *)
(* leaves the record out of the results, which are empty for a corpus of   *)
(* one record.                                                             *)
C6_SelfMatch ==
    (/\ Searched
     /\ call.exclude_exact
     /\ questions[Candidates[1].pos].question = call.query_question
     /\ AtLeast(Candidates[1].similarity, call.threshold))
    => /\ ret.exact_match_found
       /\ ret.exact_match_id = questions[Candidates[1].pos].id
       /\ questions[Candidates[1].pos].id \notin ResultIds(ret.results)
       /\ Len(questions) = 1 => ret.results = <<>>

-----------------------------------------------------------------------------
(* C7: find_similar with exclude_exact and without it return the same *)
(* exact_match_found and the same exact_match_id.                     *)
C7_ReportDecoupled ==
    Returned =>
        /\ Again(call.threshold, ~call.exclude_exact).exact_match_found
               = ret.exact_match_found
        /\ Again(call.threshold, ~call.exclude_exact).exact_match_id
               = ret.exact_match_id

-----------------------------------------------------------------------------
(* C8: the ids of the results at a higher threshold are among the ids of *)
(* the results at a lower one, all else equal.                           *)
C8_ThresholdMonotone ==
    Returned =>
        \A t2 \in Thresholds :
            t2 > call.threshold =>
                ResultIds(Again(t2, call.exclude_exact).results)
                    \subseteq ResultIds(ret.results)

(* a higher threshold returns some of the results and not all *)
C8_Witness ==
    /\ Returned
    /\ \E t2 \in Thresholds :
           /\ t2 > call.threshold
           /\ ResultIds(Again(t2, call.exclude_exact).results) # {}
           /\ ResultIds(Again(t2, call.exclude_exact).results) # ResultIds(ret.results)

-----------------------------------------------------------------------------
(* C9: the results are in non-increasing order of similarity. *)
C9_SortedDescending ==
    Returned =>
        \A i \in 1..(Len(ret.results) - 1) :
            ScoreGE(ret.results[i].similarity, ret.results[i + 1].similarity)

(* two results of different scores *)
C9_Witness ==
    /\ Returned
    /\ Len(ret.results) >= 2
    /\ ~ScoreGE(ret.results[2].similarity, ret.results[1].similarity)

-----------------------------------------------------------------------------
(* the normalization as the specification words it: runs of whitespace *)
(* collapsed to one space, then the ends trimmed, then lowercased      *)
SurfaceForm(text) == Lower(Strip(CollapseSpaces(text)))

(* C10: two texts with equal normalized forms are an exact match, and the *)
(* detector decides so without calling the embedding provider.            *)
C10_SurfaceTier ==
    (det.done /\ SurfaceForm(det.text1) = SurfaceForm(det.text2)) =>
        det.value /\ det.encodes = 0

(* texts that differ in case and whitespace only, on a failing provider *)
C10_Witness ==
    /\ det.done
    /\ det.text1 = T_AB
    /\ det.text2 = T_ab
    /\ failing # {}

-----------------------------------------------------------------------------
(* both normalized texts of the detector's call differ and are embedded *)
SemanticTierRuns ==
    /\ det.done
    /\ SurfaceForm(det.text1) # SurfaceForm(det.text2)
    /\ SurfaceForm(det.text1) \notin failing
    /\ SurfaceForm(det.text2) \notin failing

(* the cosine of the embeddings of the two normalized texts is >= 0.99: *)
(* 100 * u.v >= 99 * |u| * |v|                                          *)
CosineAtLeast99 ==
    /\ Dot(embed[SurfaceForm(det.text1)], embed[SurfaceForm(det.text2)]) >= 0
    /\ 10000 * Dot(embed[SurfaceForm(det.text1)], embed[SurfaceForm(det.text2)])
             * Dot(embed[SurfaceForm(det.text1)], embed[SurfaceForm(det.text2)])
          >= 9801 * Norm2(embed[SurfaceForm(det.text1)])
                  * Norm2(embed[SurfaceForm(det.text2)])

(* C11: for texts whose normalized forms differ and are embedded, the    *)
(* detector answers true exactly when the cosine of the two embeddings   *)
(* is >= 0.99.                                                           *)
C11_SemanticTier == SemanticTierRuns => (det.value <=> CosineAtLeast99)

(* an exact match by the semantic tier on two different embeddings *)
C11_Witness ==
    /\ SemanticTierRuns
    /\ det.value
    /\ embed[SurfaceForm(det.text1)] # embed[SurfaceForm(det.text2)]

-----------------------------------------------------------------------------
(* C12: the detector returns a boolean for every pair of texts and never *)
(* raises; when the provider fails in the semantic tier it returns false. *)
C12_DetectorTotal ==
    det.done =>
        /\ det.value \in BOOLEAN
        /\ ~det.raised
        /\ (/\ SurfaceForm(det.text1) # SurfaceForm(det.text2)
            /\ \/ SurfaceForm(det.text1) \in failing
               \/ SurfaceForm(det.text2) \in failing)
           => ~det.value

(* the provider embedded the first text and failed on the second *)
C12_Witness ==
    /\ det.done
    /\ det.encodes = 2
    /\ SurfaceForm(det.text1) \notin failing
    /\ SurfaceForm(det.text2) \in failing

-----------------------------------------------------------------------------
(* C13: whenever the index is built it holds one vector per record of the *)
(* engine's corpus, the Nth being the normalized embedding of the Nth     *)
(* record's text, the corpus is the one loaded from the source, and every *)
(* position a search gave the loop denotes a record.                      *)
C13_Alignment ==
    index.built =>
        /\ Len(index.vectors) = Len(questions)
        /\ questions = files[possible_paths[1]].data
        /\ \A p \in 1..Len(questions) :
               /\ HasField(questions[p], "question")
               /\ index.vectors[p] = [v |-> embed[questions[p].question],
                                      n2 |-> Norm2(embed[questions[p].question])]
        /\ \A i \in 1..Len(classified) : classified[i] \in 1..Len(questions)

(* a search over an index of two records with different texts and vectors *)
C13_Witness ==
    /\ Returned
    /\ index.built
    /\ Len(classified) = 2
    /\ questions[1].question # questions[2].question
    /\ index.vectors[1] # index.vectors[2]

-----------------------------------------------------------------------------
(* C14: find_similar is a pure query: once the engine is constructed, no  *)
(* step (a call that returns results, a degraded or failing call, the     *)
(* caller's return) changes the stored records or the index, and no       *)
(* stored record carries a similarity or is_exact_match key.              *)
NoAnnotationStored ==
    \A p \in 1..Len(questions) :
        ~HasField(questions[p], "similarity") /\ ~HasField(questions[p], "is_exact_match")

C14_Frame ==
    /\ []NoAnnotationStored
    /\ [][similarity_service = "SimilarityService"
             => questions' = questions /\ index' = index]_vars

(* a call that annotated the copy of one record and then failed on the next *)
C14_Witness ==
    /\ Returned
    /\ Available
    /\ Len(classified) = 2
    /\ HasField(questions[classified[1]], "id")
    /\ ~_are_texts_similar(call.query_question, questions[classified[1]].question).value
    /\ ~HasField(questions[classified[2]], "id")
    /\ _are_texts_similar(call.query_question, questions[classified[2]].question).value
    /\ ret = DegradedResult
    /\ NoAnnotationStored

-----------------------------------------------------------------------------
(* C15: with the deterministic provider, a call of find_similar returns   *)
(* what an earlier call with the same query, threshold, top_k and         *)
(* exclude_exact returned on the same corpus (the same records in the     *)
(* same order with the same scores and flags, the same exact_match_found  *)
(* and exact_match_id), whatever calls ran between the two.               *)
SameCallAsKept == Returned /\ previous.kept /\ previous.call = call

C15_Determinism == SameCallAsKept => ret = previous.ret

(* the kept call returned records and an exact-match report, another call *)
(* ran after it, and the call that has just returned repeats it           *)
C15_Witness ==
    /\ SameCallAsKept
    /\ previous.later = 2
    /\ Len(ret.results) = 2
    /\ ret.exact_match_found

-----------------------------------------------------------------------------
(* C16: a record without question or id is skipped alone: when the source *)
(* holds a record with both fields and the provider embeds every text of  *)
(* the source, the index is built; and a call whose candidates include a  *)
(* complete record still returns: its report of an exact match when the   *)
(* first candidate at or above the threshold is a complete record that    *)
(* matches the query exactly, and a non-empty result list when a complete *)
(* record at or above the threshold is not an exact match.                *)
Complete(q) == HasField(q, "id") /\ HasField(q, "question")

SourceRecords == files[possible_paths[1]].data

AboveThreshold ==
    SelectSeq(Candidates, LAMBDA c : AtLeast(c.similarity, call.threshold))

C16_DefectiveRecordSkipped ==
    similarity_service = "SimilarityService" =>
        /\ (/\ \E p \in 1..Len(SourceRecords) : Complete(SourceRecords[p])
            /\ \A p \in 1..Len(SourceRecords) :
                   HasField(SourceRecords[p], "question")
                       => ~EncodeFails(SourceRecords[p].question))
               => index.built
        /\ (Searched /\ AboveThreshold # <<>>
                /\ Complete(questions[AboveThreshold[1].pos])
                /\ IsExact(AboveThreshold[1]))
               => ret.exact_match_found
        /\ (Searched /\ \E i \in 1..Len(AboveThreshold) :
                            /\ Complete(questions[AboveThreshold[i].pos])
                            /\ ~IsExact(AboveThreshold[i]))
               => ret.results # <<>>

-----------------------------------------------------------------------------
(* C17 as stated: when the configured source (the first path tried) is    *)
(* missing or cannot be parsed, the constructed engine holds no records   *)
(* and no index.                                                          *)
Constructed == similarity_service = "SimilarityService"

ConfiguredSource == files[possible_paths[1]]

C17_SoftLoadConfigured ==
    (Constructed /\ (~ConfiguredSource.exists \/ ~ConfiguredSource.valid))
        => questions = <<>> /\ ~index.built

(* C17, amended: the source is the first of the candidate paths that      *)
(* exists.  When no candidate path exists, or the first that exists       *)
(* cannot be parsed, the constructed engine holds no records and no index *)
(* and its calls return the degraded result; when it can be parsed, the   *)
(* engine holds exactly its records, also when it is not the configured   *)
(* path.                                                                  *)
ExistingPaths == {i \in 1..Len(possible_paths) : files[possible_paths[i]].exists}

FirstExisting ==
    files[possible_paths[CHOOSE i \in ExistingPaths : \A j \in ExistingPaths : i <= j]]

C17_SoftLoad ==
    Constructed =>
        /\ (ExistingPaths = {} \/ ~FirstExisting.valid)
               => /\ questions = <<>>
                  /\ ~index.built
                  /\ Called => Returned /\ ret = DegradedResult
        /\ (ExistingPaths # {} /\ FirstExisting.valid) => questions = FirstExisting.data

(* the configured file cannot be parsed while a later candidate path holds *)
(* a corpus: the engine is constructed empty and a call has returned       *)
C17_Witness ==
    /\ Constructed
    /\ ConfiguredSource.exists
    /\ ~ConfiguredSource.valid
    /\ \E i \in ExistingPaths : files[possible_paths[i]].valid
    /\ questions = <<>>
    /\ ~index.built
    /\ Returned

-----------------------------------------------------------------------------
(* C18: every record of results scores at or above the call's threshold;  *)
(* every candidate given to the detector does; and a reported exact match *)
(* is a record that scores at or above the threshold, so a candidate      *)
(* below it is never added and never sets exact_match_found or            *)
(* exact_match_id.                                                        *)
ScoreOf(p) == InnerProduct(normalize_L2(embed[call.query_question]), index.vectors[p])

C18_ThresholdFilter ==
    Returned =>
        /\ \A i \in 1..Len(ret.results) :
               AtLeast(ret.results[i].similarity, call.threshold)
        /\ \A i \in 1..Len(classified) : AtLeast(ScoreOf(classified[i]), call.threshold)
        /\ ret.exact_match_found
               => \E p \in 1..Len(questions) :
                      /\ questions[p].id = ret.exact_match_id
                      /\ AtLeast(ScoreOf(p), call.threshold)

(* a record with the query's text up to case and spacing scores below the *)
(* threshold: it is not in the results, which hold another record, and is *)
(* not the exact match reported                                           *)
C18_Witness ==
    /\ Searched
    /\ ret.results # <<>>
    /\ \E i \in 1..Len(Candidates) :
           /\ ~AtLeast(Candidates[i].similarity, call.threshold)
           /\ IsExact(Candidates[i])
           /\ ret.exact_match_id # questions[Candidates[i].pos].id
           /\ questions[Candidates[i].pos].id \notin ResultIds(ret.results)

-----------------------------------------------------------------------------
(* C19: a call on an engine with an index whose query the provider embeds *)
(* searches the index once, for exactly min(2 * top_k, corpus size)       *)
(* candidates; the k requested never exceeds the corpus size nor          *)
(* 2 * top_k, and no more candidates than k are given to the detector.    *)
Overfetch ==
    IF 2 * call.top_k <= Len(questions) THEN 2 * call.top_k ELSE Len(questions)

C19_Overfetch ==
    /\ (Called /\ Available /\ call.query_question \notin failing)
           => search_calls = 1 /\ requested_k = Overfetch
    /\ search_calls = 0 => requested_k = 0
    /\ requested_k <= Len(questions)
    /\ requested_k <= 2 * call.top_k
    /\ Len(classified) <= requested_k

(* a search cut to 2 * top_k below the corpus size, all of whose *)
(* candidates passed the threshold                               *)
C19_Witness ==
    /\ Searched
    /\ requested_k = 2
    /\ Len(questions) = 3
    /\ Len(classified) = 2

(* a search capped by the corpus size, below 2 * top_k *)
C19_WitnessCapped ==
    /\ Searched
    /\ requested_k = 3
    /\ call.top_k = 2
    /\ Len(classified) = 2

-----------------------------------------------------------------------------
-----------------------------------------------------------------------------
(* C21: on a call that searched the index and did not fail, the results   *)
(* are the first top_k, in the index's order, of the fetched candidates   *)
(* that score at or above the threshold and, with exclude_exact, are not  *)
(* classified as exact matches; a candidate after the one that fills the  *)
(* top_k-th slot is not examined: it is not given to the detector and     *)
(* does not set exact_match_found.                                        *)

(* the i-th of the candidates cands is kept by the filters *)
Kept(cands, i) ==
    /\ AtLeast(cands[i].similarity, call.threshold)
    /\ ~(call.exclude_exact /\ IsExact(cands[i]))

(* fewer than top_k of the candidates before the i-th are kept *)
Examined(cands, i) == Cardinality({j \in 1..(i - 1) : Kept(cands, j)}) < call.top_k

Places(cands) == [i \in 1..Len(cands) |-> i]

ExpectedResults(cands) ==
    LET places == SelectSeq(Places(cands),
                            LAMBDA i : Kept(cands, i) /\ Examined(cands, i))
    IN  [n \in 1..Len(places) |->
            [similarity |-> cands[places[n]].similarity,
             is_exact_match |-> IsExact(cands[places[n]])]
                @@ questions[cands[places[n]].pos]]

ExpectedClassified(cands) ==
    LET places == SelectSeq(Places(cands),
                            LAMBDA i : /\ AtLeast(cands[i].similarity, call.threshold)
                                       /\ Examined(cands, i))
    IN  [n \in 1..Len(places) |-> cands[places[n]].pos]

C21_FirstTopKOfFiltered ==
    (Searched /\ ~LoopFailed) =>
        \A cands \in {Candidates} :
            /\ ret.results = ExpectedResults(cands)
            /\ classified = ExpectedClassified(cands)
            /\ ret.exact_match_found
                   <=> \E i \in 1..Len(cands) :
                          /\ Examined(cands, i)
                          /\ AtLeast(cands[i].similarity, call.threshold)
                          /\ IsExact(cands[i])

(* the top_k-th slot is filled before a later candidate that scores at or *)
(* above the threshold and has the query's text up to case and spacing:   *)
(* it is not classified and no exact match is reported                    *)
C21_Witness ==
    /\ Searched
    /\ Len(ret.results) = call.top_k
    /\ ~ret.exact_match_found
    /\ \E i \in 1..Len(Candidates) :
           /\ AtLeast(Candidates[i].similarity, call.threshold)
           /\ IsExact(Candidates[i])
           /\ Candidates[i].pos \notin Range(classified)

====
